---- MODULE Spec2Model ----
(***************************************************************************)
(* Model of src/04-optimizers.ipynb: the custom optimizer SGD_Alternate,   *)
(* the hyperparameter writes through param_groups, and the training loops  *)
(* train_epoch / train_model (plain, hand-written lr decay, lr_scheduler). *)
(* The library's parts the notebook calls (zero_grad, state_dict, the      *)
(* MultiStepLR tick, the steps of torch.optim.SGD and torch.optim.Adam)    *)
(* are modelled from their documented rules.                               *)
(*                                                                         *)
(* Tensors are modelled by one element (every operation of the code is     *)
(* element-wise), and floating point numbers by exact rationals: rounding  *)
(* is not modelled.                                                        *)
(***************************************************************************)
EXTENDS Integers, Sequences, FiniteSets, TLC

\* ------------------------------------------------------------------------
\* Exact rational arithmetic for the code's float operations (*, +, -).
\* ------------------------------------------------------------------------

Abs(x) == IF x < 0 THEN -x ELSE x

RECURSIVE GCD(_, _)
GCD(a, b) == IF b = 0 THEN a ELSE GCD(b, a % b)

\* The rational n/d, d > 0, in lowest terms.
Rat(n, d) ==
    LET g == GCD(Abs(n), d)
    IN  [n |-> n \div g, d |-> d \div g]

\* Python's None: a missing gradient or a missing momentum buffer.
None == [n |-> 0, d |-> 0]

Zero == Rat(0, 1)
One == Rat(1, 1)

RAdd(a, b) ==
    LET g == GCD(a.d, b.d)
    IN  Rat(a.n * (b.d \div g) + b.n * (a.d \div g), (a.d \div g) * b.d)

RNeg(a) == [n |-> -a.n, d |-> a.d]

RSub(a, b) == RAdd(a, RNeg(b))

RMul(a, b) ==
    LET g1 == GCD(Abs(a.n), b.d)
        g2 == GCD(Abs(b.n), a.d)
    IN  Rat((a.n \div g1) * (b.n \div g2), (a.d \div g2) * (b.d \div g1))

\* ------------------------------------------------------------------------
\* Bounds and input sets.
\* ------------------------------------------------------------------------

\* Number of optimizer calls (backward, zero_grad, step, hyperparameter
\* write) of one interactive session.
MaxOps == 5

\* Number of optimizer calls of one session with optimizer_diff.
MaxDiffOps == 4

\* Number of optimizer calls, and of scheduler ticks, of one session with
\* adam.
MaxAdamOps == 4
MaxAdamTicks == 6

\* Number of optimizer calls and hand-written decays, and of scheduler
\* ticks, of one session with the optimizer the scheduler is built on.
MaxDecayOps == 3
MaxDecayTicks == 6

\* Number of optimizer calls that follow a construction with arbitrary
\* arguments.
MaxCtorOps == 3

\* The parameters, and the groups they are split into (one optimizer, two
\* groups, as optimizer_diff does with the layers of the MLP).
Params == {1, 2}
GroupParams == << <<1>>, <<2>> >>
Groups == DOMAIN GroupParams

\* Values a learning rate and a momentum take in the notebook: lr = .1 and
\* its decay .1 * .1; momentum = .9, the write momentum = .8, and 0.
LrVals == {Rat(1, 10), Rat(1, 100)}
MomVals == {Zero, Rat(4, 5), Rat(9, 10)}

\* Gradients the backward pass leaves on a parameter.
GradVals == {One, Rat(-2, 1)}

InitParam == One

VARIABLES
    param,          \* param[p]: value of parameter p
    grad,           \* grad[p]: p.grad, None when absent
    state,          \* state[p]: self.state[p].get("momentum_buffer")
    param_groups,   \* param_groups[g]: [params, lr, momentum (, weight_decay)]
    refParam,       \* the same parameters under the reference rule
    refBuf,         \* the reference rule's buffer
    zeroParam,      \* the same parameters with buffers that start as zero
    zeroBuf,        \* the buffers that exist from construction, from zero
    stepLrs,        \* stepLrs[g]: the lr values step has run with in group g
    gradBatches,    \* gradBatches[p]: backward passes summed in grad[p]
    op,             \* the last call: [name, group, key, val]
    nops,           \* number of calls so far
    variant,        \* which driver runs: "cells", "diff", or a train_model
    pc,             \* the statement train_model / train_epoch is at
    num_epochs,     \* train_model's argument
    epoch,          \* train_model's loop variable
    batch,          \* position of train_epoch's loop in the dataloader
    calls,          \* the calls train_epoch made for the current mini-batch
    checkpoint_loc,  \* the argument checkpoint_loc: a folder, or NoArg (None)
    checkpoint_name, \* the argument checkpoint_name: a file name, or NoArg (None)
    checkpoint,     \* the checkpoint_dict last saved, <<>> before any
    has_scheduler,  \* lr_scheduler is not None
    last_epoch,     \* the scheduler's counter
    base_lrs,       \* the lr every group was constructed with
    epoch_start_scheduler, \* train_model's argument
    set_to_none,    \* the library's default for zero_grad()
    loss_params     \* the parameters the training loss depends on

optState == <<param, grad, state, param_groups, refParam, refBuf, zeroParam, zeroBuf, stepLrs, gradBatches>>
optVars == <<optState, op>>
configVars == <<variant, num_epochs, checkpoint_loc, checkpoint_name, has_scheduler, base_lrs,
                epoch_start_scheduler, set_to_none, loss_params>>
trainVars == <<configVars, pc, epoch, batch, calls, checkpoint, last_epoch>>
vars == <<optVars, nops, trainVars>>

\* Python's None as the value of an argument that names a file or a folder.
NoArg == "None"

Call(name) == [name |-> name, group |-> 0, key |-> "", val |-> None]

\* ------------------------------------------------------------------------
\* SGD_Alternate
\* ------------------------------------------------------------------------

\* __init__: every group gets its hyperparameters, either its own or the
\* defaults {"lr": lr, "momentum": momentum}.
NewGroup(g, lr, momentum) ==
    [params |-> GroupParams[g], lr |-> lr, momentum |-> momentum]

\* Mutant of __init__: the arguments are checked as torch.optim.SGD checks
\* them, and a bad value raises.
SGD_Alternate_init_Checked(lr, momentum) ==
    [raised |-> ~(lr.n > 0 /\ momentum.n >= 0 /\ momentum.n < momentum.d),
     param_groups |-> [g \in Groups |-> NewGroup(g, lr, momentum)]]

\* SGD_Alternate(parameters, lr, momentum): "we skip check on the args
\* values"; the superclass makes the groups with the two defaults.
SGD_Alternate_init(lr, momentum) ==
    [raised |-> FALSE,
     param_groups |-> [g \in Groups |-> NewGroup(g, lr, momentum)]]

\* Mutants of the buffer update: the two hyperparameters swapped; add_
\* without mul_.
BufferUpdate_Swapped(M, pg, g) == RAdd(RMul(M, pg.lr), RMul(g, pg.momentum))

BufferUpdate_NoDecay(M, pg, g) == RAdd(M, RMul(g, pg.lr))

\* M.mul_(pg["momentum"]).add_(param.grad * pg["lr"])
BufferUpdate(M, pg, g) == RAdd(RMul(M, pg.momentum), RMul(g, pg.lr))

\* Mutant of the first-use branch: the buffer is created as zeros and the
\* gradient of the call is not added.
BufferInit_ZerosLike(pg, g) == Zero

\* Mutant of the first-use branch: the buffer starts as the gradient.
BufferInit_NoLr(pg, g) == g

\* M = pg["lr"] * param.grad
BufferInit(pg, g) == RMul(pg.lr, g)

\* Mutant of the loop body: a parameter whose gradient is zero is skipped
\* as one without gradient is.
UpdateParam_SkipZeroGrad(ps, pg, p) ==
    IF grad[p] # None /\ grad[p] # Zero
    THEN LET M == IF ps.state[p] # None
                  THEN BufferUpdate(ps.state[p], pg, grad[p])
                  ELSE BufferInit(pg, grad[p])
         IN  [param |-> [ps.param EXCEPT ![p] = RSub(@, M)],
              state |-> [ps.state EXCEPT ![p] = M]]
    ELSE ps

\* Mutant of the loop body: a missing gradient is taken as a zero gradient.
UpdateParam_NoneAsZero(ps, pg, p) ==
    LET g == IF grad[p] # None THEN grad[p] ELSE Zero
        M == IF ps.state[p] # None
             THEN BufferUpdate(ps.state[p], pg, g)
             ELSE BufferInit(pg, g)
    IN  [param |-> [ps.param EXCEPT ![p] = RSub(@, M)],
         state |-> [ps.state EXCEPT ![p] = M]]

\* The body of the two loops for parameter p of group pg, on the pair
\* ps = [param, state] the loops have produced so far.
UpdateParam(ps, pg, p) ==
    IF grad[p] # None
    THEN LET M == IF ps.state[p] # None
                  THEN BufferUpdate(ps.state[p], pg, grad[p])
                  ELSE BufferInit(pg, grad[p])
         IN  [param |-> [ps.param EXCEPT ![p] = RSub(@, M)],
              state |-> [ps.state EXCEPT ![p] = M]]
    ELSE ps

\* Mutant of the inner loop: the body runs twice for every parameter.
RECURSIVE StepParams_Twice(_, _, _)
StepParams_Twice(ps, pg, i) ==
    IF i > Len(pg.params) THEN ps
    ELSE StepParams_Twice(UpdateParam(UpdateParam(ps, pg, pg.params[i]), pg, pg.params[i]),
                          pg, i + 1)

\* for param in pg["params"], from position i on.
RECURSIVE StepParams(_, _, _)
StepParams(ps, pg, i) ==
    IF i > Len(pg.params) THEN ps
    ELSE StepParams(UpdateParam(ps, pg, pg.params[i]), pg, i + 1)

\* for pg in self.param_groups, from group j on.
RECURSIVE StepGroups(_, _)
StepGroups(ps, j) ==
    IF j > Len(param_groups) THEN ps
    ELSE StepGroups(StepParams(ps, param_groups[j], 1), j + 1)

\* SGD_Alternate.step()
SGD_Alternate_step == StepGroups([param |-> param, state |-> state], 1)

\* ------------------------------------------------------------------------
\* The reference rule of torch.optim.SGD with momentum, no weight decay, no
\* dampening: buf = grad on first use, buf = momentum*buf + grad afterwards,
\* param = param - lr*buf.
\* ------------------------------------------------------------------------

GroupOf(p) == CHOOSE j \in Groups : \E i \in DOMAIN GroupParams[j] : GroupParams[j][i] = p

RefBufNext(p) ==
    IF grad[p] = None THEN refBuf[p]
    ELSE IF refBuf[p] = None THEN grad[p]
    ELSE RAdd(RMul(param_groups[GroupOf(p)].momentum, refBuf[p]), grad[p])

RefParamNext(p) ==
    IF grad[p] = None THEN refParam[p]
    ELSE RSub(refParam[p], RMul(param_groups[GroupOf(p)].lr, RefBufNext(p)))

\* ------------------------------------------------------------------------
\* The optimizer whose buffers exist from construction with value zero and
\* which has one branch only: M = momentum*M + lr*grad, param = param - M
\* for every parameter with a gradient.
\* ------------------------------------------------------------------------

ZeroBufNext(p) ==
    IF grad[p] = None THEN zeroBuf[p]
    ELSE RAdd(RMul(param_groups[GroupOf(p)].momentum, zeroBuf[p]),
              RMul(param_groups[GroupOf(p)].lr, grad[p]))

ZeroBufMove(p) == IF grad[p] = None THEN Zero ELSE ZeroBufNext(p)

\* ------------------------------------------------------------------------
\* The calls, as effects on the optimizer's variables.
\* ------------------------------------------------------------------------

\* loss.backward(): the parameters the loss uses get a gradient, added to
\* the one they hold; gs[p] = None: p is not used by the loss.
backward(gs) ==
    /\ grad' = [p \in Params |->
                  IF gs[p] = None THEN grad[p]
                  ELSE IF grad[p] = None THEN gs[p]
                  ELSE RAdd(grad[p], gs[p])]
    /\ gradBatches' = [p \in Params |->
                  IF gs[p] = None THEN gradBatches[p] ELSE gradBatches[p] + 1]
    /\ op' = Call("backward")
    /\ UNCHANGED <<param, state, param_groups, refParam, refBuf, zeroParam, zeroBuf, stepLrs>>

\* optimizer.zero_grad(): a gradient that exists is dropped (to_none) or
\* set to zero, depending on the library's set_to_none.
zero_grad(to_none) ==
    /\ grad' = [p \in Params |->
                  IF grad[p] = None \/ to_none THEN None ELSE Zero]
    /\ gradBatches' = [p \in Params |-> 0]
    /\ op' = Call("zero_grad")
    /\ UNCHANGED <<param, state, param_groups, refParam, refBuf, zeroParam, zeroBuf, stepLrs>>

\* optimizer.step()
step ==
    /\ param' = SGD_Alternate_step.param
    /\ state' = SGD_Alternate_step.state
    /\ refParam' = [p \in Params |-> RefParamNext(p)]
    /\ refBuf' = [p \in Params |-> RefBufNext(p)]
    /\ zeroParam' = [p \in Params |-> RSub(zeroParam[p], ZeroBufMove(p))]
    /\ zeroBuf' = [p \in Params |-> ZeroBufNext(p)]
    /\ stepLrs' = [g \in Groups |-> stepLrs[g] \cup {param_groups[g].lr}]
    /\ op' = Call("step")
    /\ UNCHANGED <<grad, gradBatches, param_groups>>

\* Mutant of the write: made in every group, as the loop over param_groups
\* does.
SetHyper_AllGroups(g, key, v) == [j \in Groups |-> [param_groups[j] EXCEPT ![key] = v]]

\* Mutant of the write: made on a copy of the group, it is lost.
SetHyper_OnCopy(g, key, v) == param_groups

\* optimizer.param_groups[g][key] = v
SetHyper(g, key, v) == [param_groups EXCEPT ![g][key] = v]

set_hyper(g, key, v) ==
    /\ param_groups' = SetHyper(g, key, v)
    /\ op' = [name |-> "set", group |-> g, key |-> key, val |-> v]
    /\ UNCHANGED <<param, grad, state, refParam, refBuf, zeroParam, zeroBuf, stepLrs, gradBatches>>

\* ------------------------------------------------------------------------
\* optimizer.state_dict() and optimizer.load_state_dict(): the export keys
\* the buffers by the position of the parameter in the flattened groups
\* (from 0), holds an entry only for a parameter that has state, and lists
\* these positions as the "params" of every group; the import maps the
\* positions back to the optimizer's own parameters, in the same order.
\* ------------------------------------------------------------------------

RECURSIVE ParamsBefore(_)
ParamsBefore(j) == IF j = 1 THEN 0 ELSE ParamsBefore(j - 1) + Len(GroupParams[j - 1])

ParamIndex(p) ==
    LET j == GroupOf(p)
        i == CHOOSE k \in DOMAIN GroupParams[j] : GroupParams[j][k] = p
    IN  ParamsBefore(j) + i - 1

ParamAt(i) == CHOOSE p \in Params : ParamIndex(p) = i

state_dict ==
    [state |-> [i \in {ParamIndex(p) : p \in {q \in Params : state[q] # None}} |->
                  [momentum_buffer |-> state[ParamAt(i)]]],
     param_groups |-> [g \in Groups |->
                  [param_groups[g] EXCEPT
                      !.params = [k \in DOMAIN param_groups[g].params |->
                                     ParamIndex(param_groups[g].params[k])]]]]

load_state_dict(sd) ==
    [state |-> [p \in Params |->
                  IF ParamIndex(p) \in DOMAIN sd.state
                  THEN sd.state[ParamIndex(p)].momentum_buffer
                  ELSE None],
     param_groups |-> [g \in Groups |->
                  [sd.param_groups[g] EXCEPT !.params = param_groups[g].params]]]

\* Mutant of the checkpoint: the groups are saved, the buffers are not.
CheckpointDict_GroupsOnly ==
    [parameters |-> param,
     optimizer |-> [state |-> <<>>, param_groups |-> state_dict.param_groups],
     epoch |-> epoch]

\* checkpoint_dict
CheckpointDict ==
    [parameters |-> param,
     optimizer |-> state_dict,
     epoch |-> epoch]

\* The optimizer takes back the export a checkpoint_dict holds:
\* optimizer.load_state_dict(checkpoint_dict["optimizer"])
reload ==
    /\ state' = load_state_dict(CheckpointDict.optimizer).state
    /\ param_groups' = load_state_dict(CheckpointDict.optimizer).param_groups
    /\ op' = Call("load_state_dict")
    /\ UNCHANGED <<param, grad, refParam, refBuf, zeroParam, zeroBuf, stepLrs, gradBatches>>

\* ------------------------------------------------------------------------
\* Spec: the optimizer driven call by call, as the notebook's cells do.
\* ------------------------------------------------------------------------

\* The optimizer right after its construction, on parameters that all hold
\* the value v.
InitOptimizerAt(v) ==
    /\ param = [p \in Params |-> v]
    /\ grad = [p \in Params |-> None]
    /\ state = [p \in Params |-> None]
    /\ refParam = [p \in Params |-> v]
    /\ refBuf = [p \in Params |-> None]
    /\ zeroParam = [p \in Params |-> v]
    /\ zeroBuf = [p \in Params |-> Zero]
    /\ stepLrs = [g \in Groups |-> {}]
    /\ gradBatches = [p \in Params |-> 0]
    /\ op = Call("init")
    /\ nops = 0
    /\ calls = <<>>
    /\ checkpoint = <<>>
    /\ epoch = 0
    /\ batch = 0
    /\ last_epoch = 0
    /\ base_lrs = [g \in Groups |-> param_groups[g].lr]

InitOptimizer == InitOptimizerAt(InitParam)

Init ==
    /\ \E lr \in LrVals :
          param_groups = [g \in Groups |-> NewGroup(g, lr, Rat(9, 10))]
    /\ InitOptimizer
    /\ variant = "cells"
    /\ pc = "cells"
    /\ num_epochs = 0
    /\ checkpoint_loc = NoArg
    /\ checkpoint_name = "checkpoint.pt"
    /\ has_scheduler = FALSE
    /\ epoch_start_scheduler = 1
    /\ set_to_none = FALSE
    /\ loss_params = Params

OpsBound ==
    IF variant = "diff" THEN MaxDiffOps
    ELSE IF variant = "ctor" THEN MaxCtorOps
    ELSE IF variant = "adam" THEN MaxAdamOps
    ELSE IF variant = "decay" THEN MaxDecayOps
    ELSE MaxOps

Backward ==
    /\ pc = "cells"
    /\ nops < OpsBound
    /\ \E gs \in [Params -> GradVals \cup {None}] : backward(gs)
    /\ nops' = nops + 1
    /\ UNCHANGED trainVars

ZeroGrad ==
    /\ pc = "cells"
    /\ nops < OpsBound
    /\ \E to_none \in BOOLEAN : zero_grad(to_none)
    /\ nops' = nops + 1
    /\ UNCHANGED trainVars

Step ==
    /\ pc = "cells"
    /\ nops < OpsBound
    /\ step
    /\ nops' = nops + 1
    /\ UNCHANGED trainVars

SetLr ==
    /\ nops < OpsBound
    /\ \E g \in Groups, v \in LrVals : set_hyper(g, "lr", v)
    /\ nops' = nops + 1
    /\ UNCHANGED trainVars

SetMomentum ==
    /\ nops < OpsBound
    /\ \E g \in Groups, v \in MomVals : set_hyper(g, "momentum", v)
    /\ nops' = nops + 1
    /\ UNCHANGED trainVars

Reload ==
    /\ nops < MaxOps
    /\ reload
    /\ nops' = nops + 1
    /\ UNCHANGED trainVars

Next == Backward \/ ZeroGrad \/ Step \/ SetLr \/ SetMomentum \/ Reload

Spec == Init /\ [][Next]_vars

\* ------------------------------------------------------------------------
\* Properties of SGD_Alternate.step and of the hyperparameter writes (Spec).
\* ------------------------------------------------------------------------

Lr(p) == param_groups[GroupOf(p)].lr
Momentum(p) == param_groups[GroupOf(p)].momentum

\* The amount the momentum rule subtracts from p, from the state before the
\* call.
MomentumSGD(p) ==
    IF state[p] = None THEN RMul(Lr(p), grad[p])
    ELSE RAdd(RMul(Momentum(p), state[p]), RMul(Lr(p), grad[p]))

\* C1: step applies the momentum rule to every parameter with a gradient:
\* M = lr*grad without a buffer, M = momentum*M_prev + lr*grad with one; the
\* parameter becomes param - M and the stored buffer is that M; lr and
\* momentum are those of the parameter's own group at the call.
C1_StepAppliesMomentumRule ==
    [][op'.name = "step" =>
         \A p \in Params : grad[p] # None =>
             /\ param'[p] = RSub(param[p], MomentumSGD(p))
             /\ state'[p] = MomentumSGD(p)]_vars

\* A step has updated an existing buffer (the buffer is not lr*grad) while
\* the two groups hold different lr and different momentum.
C1_Witness ==
    /\ op.name = "step"
    /\ param_groups[1].lr # param_groups[2].lr
    /\ param_groups[1].momentum # param_groups[2].momentum
    /\ \A p \in Params :
          grad[p] # None /\ state[p] # None /\ state[p] # RMul(Lr(p), grad[p])

\* C2: with momentum = 0 in its group, a parameter with a gradient is
\* updated by every step as plain SGD does: param - lr*grad.
C2_ZeroMomentumIsPlainSGD ==
    [][op'.name = "step" =>
         \A p \in Params : grad[p] # None /\ Momentum(p) = Zero =>
             param'[p] = RSub(param[p], RMul(Lr(p), grad[p]))]_vars

\* A later step (the parameter has moved twice, under two lr values) of a
\* group whose momentum is 0.
C2_Witness ==
    /\ op.name = "step"
    /\ \E p \in Params :
          /\ Momentum(p) = Zero
          /\ grad[p] # None /\ grad[p] # Zero
          /\ Cardinality(stepLrs[GroupOf(p)]) = 2
          /\ param[p] # RSub(InitParam, RMul(Lr(p), grad[p]))

\* C3: a parameter whose gradient is None at the call keeps its value and
\* its state: a buffer is not changed and none is created.
C3_NullGradientUntouched ==
    [][op'.name = "step" =>
         \A p \in Params : grad[p] = None =>
             param'[p] = param[p] /\ state'[p] = state[p]]_vars

\* A step has skipped parameter 1, which holds a buffer, and has updated
\* parameter 2.
C3_Witness ==
    /\ op.name = "step"
    /\ grad[1] = None /\ state[1] # None /\ state[1] # Zero
    /\ grad[2] # None /\ state[2] # None

\* C4 as claimed: after every step the parameters are those of the
\* reference rule, whatever lr and momentum the group held at each call.
C4_SameAsReference == \A p \in Params : param[p] = refParam[p]

\* C4 as amended: the parameters of a group are those of the reference rule
\* as long as every step of the group has run with the same lr (momentum may
\* be rewritten between calls); the stored buffer is then lr times the
\* reference buffer.
C4_SameAsReferenceUnderOneLr ==
    \A p \in Params : Cardinality(stepLrs[GroupOf(p)]) <= 1 =>
        /\ param[p] = refParam[p]
        /\ (state[p] = None) = (refBuf[p] = None)
        /\ state[p] # None =>
              \A lr \in stepLrs[GroupOf(p)] : state[p] = RMul(lr, refBuf[p])

\* Two steps have moved parameter 1 under one lr, the second with a
\* momentum that is not 0.
C4_Witness ==
    /\ op.name = "step"
    /\ stepLrs[1] = {param_groups[1].lr}
    /\ Momentum(1) # Zero
    /\ grad[1] # None /\ state[1] # None
    /\ state[1] # RMul(Lr(1), grad[1])

\* C7: a write of lr or momentum changes that slot of that group and
\* nothing else (no parameter, no buffer, no other group), and the step that
\* follows it computes M from the written values and the buffer as it was.
C7_WriteTakesEffectOnNextStep ==
    [][/\ op'.name = "set" =>
            /\ param' = param /\ state' = state /\ grad' = grad
            /\ param_groups'[op'.group][op'.key] = op'.val
            /\ \A g \in Groups, k \in {"lr", "momentum"} :
                  (g # op'.group \/ k # op'.key) =>
                      param_groups'[g][k] = param_groups[g][k]
       /\ (op.name = "set" /\ op'.name = "step") =>
            \A p \in Params : grad[p] # None /\ GroupOf(p) = op.group =>
                LET pg == param_groups[op.group]
                    new == [lr |-> IF op.key = "lr" THEN op.val ELSE pg.lr,
                            momentum |-> IF op.key = "momentum" THEN op.val
                                         ELSE pg.momentum]
                    M == IF state[p] = None THEN RMul(new.lr, grad[p])
                         ELSE RAdd(RMul(new.momentum, state[p]),
                                   RMul(new.lr, grad[p]))
                IN  param'[p] = RSub(param[p], M) /\ state'[p] = M]_vars

\* A write has changed a hyperparameter of a group whose parameter holds a
\* buffer and a gradient: the next step is the one the claim is about.
C7_Witness ==
    /\ op.name = "set"
    /\ op.key = "lr"
    /\ stepLrs[op.group] # {}
    /\ op.val \notin stepLrs[op.group]
    /\ \E p \in Params :
          /\ GroupOf(p) = op.group
          /\ param_groups[op.group][op.key] = op.val
          /\ state[p] # None /\ state[p] # Zero /\ grad[p] # None

\* What step makes of parameter p, with its gradient as it is, from the
\* buffers st and the groups pgs: the new value and the new buffer.
StepResult(st, pgs, p) ==
    IF grad[p] = None THEN [param |-> param[p], state |-> st[p]]
    ELSE LET pg == pgs[GroupOf(p)]
             M == IF st[p] = None THEN RMul(pg.lr, grad[p])
                  ELSE RAdd(RMul(pg.momentum, st[p]), RMul(pg.lr, grad[p]))
         IN  [param |-> RSub(param[p], M), state |-> M]

\* C11: importing the export just taken changes no parameter and no
\* gradient, and the step on the imported state gives the same parameter
\* values and the same buffers as the step on the state before the export.
C11_ExportImportRoundTrip ==
    [][op'.name = "load_state_dict" =>
         /\ param' = param /\ grad' = grad
         /\ \A g \in Groups : param_groups'[g].params = param_groups[g].params
         /\ \A p \in Params :
               StepResult(state', param_groups', p) = StepResult(state, param_groups, p)]_vars

\* An import into an optimizer whose first parameter holds a buffer and the
\* second none, with an lr rewritten in one group, and gradients to step on.
C11_Witness ==
    /\ op.name = "load_state_dict"
    /\ state[1] # None /\ state[1] # Zero /\ state[2] = None
    /\ param_groups[1].lr # param_groups[2].lr
    /\ grad[1] # None /\ grad[2] # None

\* C16: after any sequence of calls the parameters are those of the
\* optimizer whose buffers start as zero and which always applies
\* M = momentum*M + lr*grad, and the buffers are the same, a missing buffer
\* standing for the zero one.
C16_LazyBufferIsZeroBuffer ==
    \A p \in Params :
        /\ param[p] = zeroParam[p]
        /\ zeroBuf[p] = (IF state[p] = None THEN Zero ELSE state[p])

\* Parameter 1 has been stepped twice, the second time under a rewritten
\* momentum, while parameter 2 never had a gradient and has no buffer.
C16_Witness ==
    /\ variant = "cells"
    /\ op.name = "step"
    /\ grad[1] # None /\ grad[1] # Zero
    /\ state[1] # None /\ state[1] # RMul(Lr(1), grad[1])
    /\ Momentum(1) = Rat(4, 5)
    /\ grad[2] = None /\ state[2] = None /\ zeroBuf[2] = Zero

\* C18 as claimed: a step that directly follows a zero_grad changes no
\* parameter value and no accumulated buffer (a buffer that exists).
C18_StepAfterZeroGradChangesNothing ==
    [][(op.name = "zero_grad" /\ op'.name = "step") =>
           /\ param' = param
           /\ \A p \in Params : state[p] # None => state'[p] = state[p]]_vars

\* C18 as amended: at a step that directly follows a zero_grad, a
\* parameter whose gradient is None keeps its value and its buffer; a
\* parameter whose gradient zero_grad has set to zero is updated with that
\* zero gradient: its buffer becomes momentum*M (a zero buffer is created
\* when it has none) and its value moves by that amount.
C18_StepAfterZeroGradSkipsNoneOnly ==
    [][(op.name = "zero_grad" /\ op'.name = "step") =>
           \A p \in Params :
               IF grad[p] = None
               THEN param'[p] = param[p] /\ state'[p] = state[p]
               ELSE LET M == IF state[p] = None THEN Zero
                             ELSE RMul(Momentum(p), state[p])
                    IN  /\ grad[p] = Zero
                        /\ state'[p] = M
                        /\ param'[p] = RSub(param[p], M)]_vars

\* backward, step, zero_grad, step: the last step has found a zero
\* gradient on parameter 1 and has moved it by momentum times its buffer,
\* and has found no gradient on parameter 2.
C18_Witness ==
    /\ variant = "cells"
    /\ op.name = "step"
    /\ nops = 4
    /\ grad[1] = Zero /\ gradBatches[1] = 0
    /\ state[1] # None /\ state[1] # Zero
    /\ grad[2] = None /\ state[2] = None /\ param[2] = InitParam

\* The places <<group, position>> the two loops of step visit, and the
\* orders in which they can be visited once each.
Visits == {v \in Groups \X Params : v[2] \in DOMAIN param_groups[v[1]].params}

VisitOrders ==
    {order \in [1..Cardinality(Visits) -> Visits] :
        \A a, b \in 1..Cardinality(Visits) : a # b => order[a] # order[b]}

\* The loop body run over the places in the given order, from the k-th on.
RECURSIVE StepInOrder(_, _, _)
StepInOrder(ps, order, k) ==
    IF k > Cardinality(Visits) THEN ps
    ELSE LET pg == param_groups[order[k][1]]
         IN  StepInOrder(UpdateParam(ps, pg, pg.params[order[k][2]]), order, k + 1)

\* C15: at every step the groups hold every parameter at exactly one
\* place; a parameter with a gradient gets the result of one application
\* of the rule to its own value, gradient, buffer and group (one without
\* gradient stays as it is), and visiting the places in any other order
\* gives the same parameters and buffers.
C15_OncePerParameter ==
    [][op'.name = "step" =>
         /\ \A p \in Params :
               /\ Cardinality({v \in Visits : param_groups[v[1]].params[v[2]] = p}) = 1
               /\ param'[p] = StepResult(state, param_groups, p).param
               /\ state'[p] = StepResult(state, param_groups, p).state
         /\ \A order \in VisitOrders :
               LET r == StepInOrder([param |-> param, state |-> state], order, 1)
               IN  r.param = param' /\ r.state = state']_vars

\* A step has updated both parameters, which hold different gradients and
\* buffers from earlier steps, in groups with different hyperparameters.
C15_Witness ==
    /\ variant = "cells"
    /\ op.name = "step"
    /\ Cardinality(VisitOrders) = 2
    /\ grad[1] # None /\ grad[2] # None /\ grad[1] # grad[2]
    /\ state[1] # RMul(Lr(1), grad[1]) /\ state[2] # RMul(Lr(2), grad[2])
    /\ param_groups[1].lr # param_groups[2].lr
    /\ param[1] # param[2]

\* ------------------------------------------------------------------------
\* CtorSpec: SGD_Alternate is constructed with arguments of any sign and
\* size, then driven as in Spec.
\* ------------------------------------------------------------------------

\* Arguments inside and outside the domains lr > 0 and 0 <= momentum < 1.
CtorLrVals == {Rat(-1, 10), Zero, Rat(1, 10)}
CtorMomVals == {Rat(-1, 2), Rat(9, 10), One, Rat(3, 2)}

ValidLr(lr) == lr.n > 0
ValidMomentum(momentum) == momentum.n >= 0 /\ momentum.n < momentum.d

CtorInit ==
    /\ param_groups = <<>>
    /\ param = [p \in Params |-> InitParam]
    /\ grad = [p \in Params |-> None]
    /\ state = [p \in Params |-> None]
    /\ refParam = [p \in Params |-> InitParam]
    /\ refBuf = [p \in Params |-> None]
    /\ zeroParam = [p \in Params |-> InitParam]
    /\ zeroBuf = [p \in Params |-> Zero]
    /\ stepLrs = [g \in Groups |-> {}]
    /\ gradBatches = [p \in Params |-> 0]
    /\ op = Call("init")
    /\ nops = 0
    /\ calls = <<>>
    /\ checkpoint = <<>>
    /\ epoch = 0
    /\ batch = 0
    /\ last_epoch = 0
    /\ base_lrs = [g \in Groups |-> None]
    /\ variant = "ctor"
    /\ pc = "new"
    /\ num_epochs = 0
    /\ checkpoint_loc = NoArg
    /\ checkpoint_name = "checkpoint.pt"
    /\ has_scheduler = FALSE
    /\ epoch_start_scheduler = 1
    /\ set_to_none = FALSE
    /\ loss_params = Params

\* optim_alt = SGD_Alternate(net.parameters(), lr, momentum)
Construct ==
    /\ pc = "new"
    /\ \E lr \in CtorLrVals, momentum \in CtorMomVals :
          LET new == SGD_Alternate_init(lr, momentum)
          IN  /\ pc' = IF new.raised THEN "raised" ELSE "cells"
              /\ param_groups' = IF new.raised THEN param_groups ELSE new.param_groups
              /\ base_lrs' = IF new.raised THEN base_lrs ELSE [g \in Groups |-> lr]
              /\ op' = [name |-> "new", lr |-> lr, momentum |-> momentum]
    /\ UNCHANGED <<param, grad, state, refParam, refBuf, zeroParam, zeroBuf, stepLrs, gradBatches, nops>>
    /\ UNCHANGED <<variant, num_epochs, checkpoint_loc, checkpoint_name, has_scheduler,
                   epoch_start_scheduler, set_to_none, loss_params>>
    /\ UNCHANGED <<epoch, batch, calls, checkpoint, last_epoch>>

CtorNext == Construct \/ Backward \/ ZeroGrad \/ Step

CtorSpec == CtorInit /\ [][CtorNext]_vars

\* C12 as claimed: an optimizer whose lr is not positive or whose momentum
\* is outside [0, 1) is rejected at construction and never reaches step.
C12_BadHyperparametersNeverStep ==
    op.name = "step" =>
        \A g \in Groups :
            ValidLr(param_groups[g].lr) /\ ValidMomentum(param_groups[g].momentum)

\* C12 as amended: the constructor checks nothing: for every lr and every
\* momentum it raises no error and every group holds the two values as
\* given; the steps that follow apply the momentum rule with them.
C12_ConstructorAcceptsAnyValue ==
    [][/\ op'.name = "new" =>
            /\ pc' = "cells"
            /\ \A g \in Groups :
                  /\ param_groups'[g].lr = op'.lr
                  /\ param_groups'[g].momentum = op'.momentum
       /\ op'.name = "step" =>
            \A p \in Params : grad[p] # None =>
                /\ param'[p] = RSub(param[p], MomentumSGD(p))
                /\ state'[p] = MomentumSGD(p)]_vars

\* An optimizer constructed with a negative lr and a momentum above 1 has
\* made its second step.
C12_Witness ==
    /\ variant = "ctor"
    /\ op.name = "step"
    /\ \A g \in Groups :
          /\ ~ValidLr(param_groups[g].lr) /\ param_groups[g].lr # Zero
          /\ param_groups[g].momentum = Rat(3, 2)
    /\ \E p \in Params :
          grad[p] # None /\ state[p] # None /\ state[p] # RMul(Lr(p), grad[p])

\* ------------------------------------------------------------------------
\* train_epoch and train_model (TrainSpec).
\* ------------------------------------------------------------------------

\* Largest num_epochs, and the number of mini-batches of the dataloader.
MaxEpochs == 13
NumBatches == 2

\* Momentum values whose powers stay small numbers over a whole training.
TrainMomVals == {Zero, One}

\* The gradient the backward pass of mini-batch b leaves on a parameter the
\* loss depends on.
BatchGrad(b) == IF b % 2 = 1 THEN One ELSE Rat(-2, 1)

\* if epoch in (6, 11): ... pg["lr"] *= .1
DecayEpochs == {6, 11}
DecayFactor == Rat(1, 10)

\* MultiStepLR(optimizer, milestones=[6, 11], gamma=.1)
Milestones == {6, 11}
Gamma == Rat(1, 10)

\* The statements of train_epoch's loop body, in their order.
TrainEpochOrder_StepBeforeBackward == <<"zero_grad", "forward", "step", "backward", "meters">>

TrainEpochOrder == <<"zero_grad", "forward", "backward", "step", "meters">>

\* The statement after statement s of the loop body; the loop head after
\* the last one.
AfterStatement(s) ==
    LET i == CHOOSE k \in DOMAIN TrainEpochOrder : TrainEpochOrder[k] = s
    IN  IF i = Len(TrainEpochOrder) THEN "batch_loop" ELSE TrainEpochOrder[i + 1]

\* if epoch in (6, 11)
DecayDue == epoch \in DecayEpochs

\* Mutant: the decay is written to the wrong slot of the group.
DecayedGroups_WrongSlot == [g \in Groups |-> [param_groups[g] EXCEPT !.momentum = RMul(@, DecayFactor)]]

\* for pg in optimizer.param_groups: pg["lr"] *= .1
DecayedGroups == [g \in Groups |-> [param_groups[g] EXCEPT !.lr = RMul(@, DecayFactor)]]

\* The notebook's imports (import torch; from scripts.architectures import
\* MLP; from scripts.train_utils import AverageMeter, accuracy; from scripts
\* import mnist) do not bind the name os.
OsImported == FALSE

\* def train_epoch(model, dataloader, loss_fn, optimizer, loss_meter,
\* performance_meter, performance, device): the number of its parameters.
TrainEpochParams == 8

\* The number of arguments the train_model of a cell passes to train_epoch:
\* the plain one passes device as the last of 8, the one with the
\* hand-written decay and the one with lr_scheduler stop at performance.
TrainEpochArgs(v) == IF v = "plain" THEN 8 ELSE 7

\* MultiStep tick: the counter advances; at a milestone every group's lr,
\* as it is then, is multiplied by gamma.
MultiStepLR_step ==
    IF (last_epoch + 1) \in Milestones
    THEN [g \in Groups |-> [param_groups[g] EXCEPT !.lr = RMul(@, Gamma)]]
    ELSE param_groups

\* Values of the argument epoch_start_scheduler (default 1).
StartEpochVals == {0, 1, 3}

\* The arguments of train_model and the optimizer it is given; variant is
\* the cell whose train_model is called.
TrainInit ==
    /\ \E lr1 \in {Rat(1, 10)}, lr2 \in LrVals, momentum \in TrainMomVals :
          param_groups = << NewGroup(1, lr1, momentum), NewGroup(2, lr2, momentum) >>
    /\ InitOptimizer
    /\ variant \in {"plain", "manual", "scheduler"}
    /\ pc = "start"
    /\ num_epochs \in 1..MaxEpochs
    /\ checkpoint_loc \in {NoArg, "ckpt"}
    /\ checkpoint_name \in {NoArg, "checkpoint.pt"}
    /\ has_scheduler \in (IF variant = "scheduler" THEN BOOLEAN ELSE {FALSE})
    /\ epoch_start_scheduler \in (IF variant = "scheduler" THEN StartEpochVals ELSE {1})
    /\ set_to_none \in BOOLEAN
    /\ loss_params \in {Params, {1}}

\* if checkpoint_loc is not None: os.makedirs(checkpoint_loc, exist_ok=True)
\* and then model.train(). The name os is looked up when the statement
\* runs: not bound, it raises NameError (name 'os' is not defined) and
\* train_model ends there, before model.train().
TrainStart ==
    /\ pc = "start"
    /\ IF checkpoint_loc # NoArg /\ ~OsImported
       THEN /\ pc' = "raised"
            /\ op' = Call("NameError")
       ELSE /\ pc' = "epoch_loop"
            /\ op' = Call("train")
    /\ UNCHANGED <<optState, nops, configVars, epoch, batch, calls, checkpoint, last_epoch>>

\* for epoch in range(num_epochs): ... return
EpochLoop ==
    /\ pc = "epoch_loop"
    /\ pc' = IF epoch >= num_epochs THEN "done"
             ELSE IF variant = "manual" THEN "decay" ELSE "train_epoch"
    /\ op' = Call("epoch_loop")
    /\ UNCHANGED <<optState, nops, configVars, epoch, batch, calls, checkpoint, last_epoch>>

\* The hand-written decay at the head of the epoch.
ManualDecay ==
    /\ pc = "decay"
    /\ param_groups' = IF DecayDue THEN DecayedGroups ELSE param_groups
    /\ pc' = "train_epoch"
    /\ op' = Call("decay")
    /\ UNCHANGED <<param, grad, state, refParam, refBuf, zeroParam, zeroBuf, stepLrs, gradBatches>>
    /\ UNCHANGED <<nops, configVars, epoch, batch, calls, checkpoint, last_epoch>>

\* loss_meter = AverageMeter() ...; train_epoch(...) is called. The call
\* binds its positional arguments to train_epoch's parameters, none of which
\* has a default: with as many arguments as parameters train_epoch is
\* entered; with fewer the call raises TypeError (missing 1 required
\* positional argument: 'device') and train_model ends there, by the
\* exception, with the optimizer as it was.
TrainEpoch ==
    /\ pc = "train_epoch"
    /\ IF TrainEpochArgs(variant) = TrainEpochParams
       THEN /\ pc' = "batch_loop"
            /\ batch' = 0
            /\ op' = Call("train_epoch")
       ELSE /\ pc' = "raised"
            /\ batch' = batch
            /\ op' = Call("TypeError")
    /\ UNCHANGED <<optState, nops, configVars, epoch, calls, checkpoint, last_epoch>>

\* for X, y in dataloader: the next mini-batch, or train_epoch returns.
BatchLoop ==
    /\ pc = "batch_loop"
    /\ IF batch < NumBatches
       THEN /\ batch' = batch + 1
            /\ pc' = TrainEpochOrder[1]
            /\ calls' = <<>>
       ELSE /\ pc' = "checkpoint"
            /\ UNCHANGED <<batch, calls>>
    /\ op' = Call("batch_loop")
    /\ UNCHANGED <<optState, nops, configVars, epoch, checkpoint, last_epoch>>

TrainZeroGrad ==
    /\ pc = "zero_grad"
    /\ zero_grad(set_to_none)
    /\ pc' = AfterStatement("zero_grad")
    /\ calls' = Append(calls, "zero_grad")
    /\ UNCHANGED <<nops, configVars, epoch, batch, checkpoint, last_epoch>>

\* y_hat = model(X); loss = loss_fn(y_hat, y)
TrainForward ==
    /\ pc = "forward"
    /\ pc' = AfterStatement("forward")
    /\ calls' = Append(calls, "forward")
    /\ op' = Call("forward")
    /\ UNCHANGED <<optState, nops, configVars, epoch, batch, checkpoint, last_epoch>>

TrainBackward ==
    /\ pc = "backward"
    /\ backward([p \in Params |-> IF p \in loss_params THEN BatchGrad(batch) ELSE None])
    /\ pc' = AfterStatement("backward")
    /\ calls' = Append(calls, "backward")
    /\ UNCHANGED <<nops, configVars, epoch, batch, checkpoint, last_epoch>>

TrainStep ==
    /\ pc = "step"
    /\ step
    /\ pc' = AfterStatement("step")
    /\ calls' = Append(calls, "step")
    /\ UNCHANGED <<nops, configVars, epoch, batch, checkpoint, last_epoch>>

\* acc = performance(y_hat, y); the two meters are updated.
TrainMeters ==
    /\ pc = "meters"
    /\ pc' = AfterStatement("meters")
    /\ op' = Call("meters")
    /\ UNCHANGED <<optState, nops, configVars, epoch, batch, calls, checkpoint, last_epoch>>

\* if checkpoint_name is not None and checkpoint_loc is not None:
\* checkpoint_dict = {...}; torch.save(checkpoint_dict,
\* os.path.join(checkpoint_loc, checkpoint_name)); then the end of the loop
\* body. os.path.join is evaluated before torch.save is called: with os not
\* bound the statement raises NameError and nothing is saved. (In the cell
\* with lr_scheduler the scheduler's turn, if lr_scheduler is not None:
\* lr_scheduler.step(), would follow; that cell never comes here, its call
\* of train_epoch raises.)
TrainCheckpoint ==
    /\ pc = "checkpoint"
    /\ IF checkpoint_name # NoArg /\ checkpoint_loc # NoArg
       THEN IF OsImported
            THEN /\ checkpoint' = CheckpointDict
                 /\ pc' = "epoch_loop"
                 /\ epoch' = epoch + 1
                 /\ op' = Call("checkpoint")
            ELSE /\ checkpoint' = checkpoint
                 /\ pc' = "raised"
                 /\ epoch' = epoch
                 /\ op' = Call("NameError")
       ELSE /\ checkpoint' = checkpoint
            /\ pc' = "epoch_loop"
            /\ epoch' = epoch + 1
            /\ op' = Call("checkpoint")
    /\ UNCHANGED <<optState, nops, configVars, batch, calls, last_epoch>>

\* The statements train_model reaches. Past the call of train_epoch they
\* are those of the plain cell: in the two other cells the call raises in
\* the first epoch.
TrainNext ==
    \/ TrainStart \/ EpochLoop \/ ManualDecay \/ TrainEpoch \/ BatchLoop
    \/ TrainZeroGrad \/ TrainForward \/ TrainBackward \/ TrainStep \/ TrainMeters
    \/ TrainCheckpoint

TrainSpec == TrainInit /\ [][TrainNext]_vars

\* ------------------------------------------------------------------------
\* Properties of the training loops (TrainSpec).
\* ------------------------------------------------------------------------

Scheduled == variant = "scheduler" /\ has_scheduler

\* train_model is called as the notebook's cells call it, without a folder
\* for checkpoints.
NoFolder == checkpoint_loc = NoArg

\* train_model has ended: it has returned, or an exception has left it.
Ended == pc \in {"done", "raised"}

\* C5: with milestones {6, 11}, gamma 0.1 and initial lr 0.1, ticked at the
\* end of every epoch, the lr is 0.1 while fewer than 6 ticks have happened,
\* 0.01 from the 6th tick until the 11th and 0.001 from the 11th tick on. On
\* the finished run (called without a checkpoint folder, as the notebook
\* does): a training of n epochs has ended with the lr at 0.1 if
\* n < 6, at 0.01 if 6 <= n < 11, at 0.001 if n >= 11.
C5_MultiStepSchedule ==
    (Scheduled /\ NoFolder /\ Ended) =>
        \A g \in Groups : base_lrs[g] = Rat(1, 10) =>
            param_groups[g].lr =
                (IF num_epochs < 6 THEN Rat(1, 10)
                 ELSE IF num_epochs < 11 THEN Rat(1, 100)
                 ELSE Rat(1, 1000))

\* C6: the loop with the hand-written decay and the loop driven by the
\* scheduler run every epoch with the same lr in every group, and the two
\* milestones compound. On the finished run: a training of 12 epochs or
\* more, by either loop, has ended with every group's lr at its initial lr
\* times 0.1 squared.
C6_SameLrInEveryEpoch ==
    (/\ variant = "manual" \/ Scheduled
     /\ NoFolder
     /\ Ended
     /\ num_epochs >= 12)
        => \A g \in Groups : param_groups[g].lr = RMul(base_lrs[g], RMul(Gamma, Gamma))

\* C9: for every mini-batch train_epoch calls zero_grad, forward, backward
\* and step once each, in this order: a step comes after the zero_grad and
\* the backward of its own mini-batch, so the gradient it reads holds one
\* backward pass at most, and the loop moves on only after all four.
C9_FixedOrderPerMiniBatch ==
    [][/\ op'.name = "step" =>
            /\ calls' = <<"zero_grad", "forward", "backward", "step">>
            /\ \A p \in Params : gradBatches[p] <= 1
       /\ (pc = "batch_loop" /\ batch > 0) =>
            calls = <<"zero_grad", "forward", "backward", "step">>]_vars

\* The step of the second mini-batch of a later epoch has run on a fresh
\* gradient.
C9_Witness ==
    /\ op.name = "step"
    /\ epoch >= 1
    /\ batch = 2
    /\ grad[1] # None /\ gradBatches[1] = 1

\* C17: train_model with a scheduler terminates after exactly num_epochs
\* epochs, with one tick per epoch, whatever epoch_start_scheduler is. On
\* the finished run: the training has ended by returning, epoch and the
\* scheduler's counter both at num_epochs.
C17_OneTickPerEpochAndReturns ==
    (Scheduled /\ NoFolder /\ Ended) =>
        /\ pc = "done"
        /\ epoch = num_epochs
        /\ last_epoch = num_epochs

\* C10 as claimed, on the finished run: a train_model given a folder and a
\* name for its checkpoints has ended with a checkpoint saved, and the
\* checkpoint holds the optimizer's export, the scheduler's state and the
\* epoch.
C10_CheckpointHoldsScheduler ==
    (checkpoint_loc # NoArg /\ checkpoint_name # NoArg /\ Ended)
        => {"optimizer", "scheduler", "epoch"} \subseteq DOMAIN checkpoint

\* ------------------------------------------------------------------------
\* optimizer_diff: torch.optim.SGD on two groups with their own
\* weight_decay (DiffSpec).
\* ------------------------------------------------------------------------

\* Values of weight_decay whose products stay small numbers.
WdVals == {Zero, Rat(1, 2), One}

\* {"params": ..., "weight_decay": wd} with the defaults momentum, lr.
NewDiffGroup(g, lr, momentum, wd) ==
    [params |-> GroupParams[g], lr |-> lr, momentum |-> momentum, weight_decay |-> wd]

\* The MomentumSGD rule for parameter p of group pg:
\* M = momentum*M_prev + lr*(grad + weight_decay*param), without the M_prev
\* term on first use; param = param - M.
SGD_UpdateParam(ps, pg, p) ==
    IF grad[p] # None
    THEN LET d == IF pg.weight_decay # Zero
                  THEN RAdd(grad[p], RMul(pg.weight_decay, ps.param[p]))
                  ELSE grad[p]
             M == IF ps.state[p] # None
                  THEN RAdd(RMul(pg.momentum, ps.state[p]), RMul(pg.lr, d))
                  ELSE RMul(pg.lr, d)
         IN  [param |-> [ps.param EXCEPT ![p] = RSub(@, M)],
              state |-> [ps.state EXCEPT ![p] = M]]
    ELSE ps

RECURSIVE SGD_StepParams(_, _, _)
SGD_StepParams(ps, pg, i) ==
    IF i > Len(pg.params) THEN ps
    ELSE SGD_StepParams(SGD_UpdateParam(ps, pg, pg.params[i]), pg, i + 1)

RECURSIVE SGD_StepGroups(_, _)
SGD_StepGroups(ps, j) ==
    IF j > Len(param_groups) THEN ps
    ELSE SGD_StepGroups(SGD_StepParams(ps, param_groups[j], 1), j + 1)

SGD_step == SGD_StepGroups([param |-> param, state |-> state], 1)

\* The value the parameters hold when optimizer_diff is constructed: the
\* same in both groups, 0 (where the weight decay term vanishes) or 1.
DiffParamVals == {Zero, One}

DiffInit ==
    /\ \E wd1, wd2 \in WdVals :
          param_groups = << NewDiffGroup(1, Rat(1, 10), Rat(9, 10), wd1),
                            NewDiffGroup(2, Rat(1, 10), Rat(9, 10), wd2) >>
    /\ \E v \in DiffParamVals : InitOptimizerAt(v)
    /\ variant = "diff"
    /\ pc = "cells"
    /\ num_epochs = 0
    /\ checkpoint_loc = NoArg
    /\ checkpoint_name = "checkpoint.pt"
    /\ has_scheduler = FALSE
    /\ epoch_start_scheduler = 1
    /\ set_to_none = FALSE
    /\ loss_params = Params

DiffStep ==
    /\ nops < OpsBound
    /\ param' = SGD_step.param
    /\ state' = SGD_step.state
    /\ stepLrs' = [g \in Groups |-> stepLrs[g] \cup {param_groups[g].lr}]
    /\ op' = Call("step")
    /\ nops' = nops + 1
    /\ UNCHANGED <<grad, gradBatches, param_groups, refParam, refBuf, zeroParam, zeroBuf, trainVars>>

SetWeightDecay ==
    /\ nops < OpsBound
    /\ \E g \in Groups, v \in WdVals : set_hyper(g, "weight_decay", v)
    /\ nops' = nops + 1
    /\ UNCHANGED trainVars

DiffNext == Backward \/ ZeroGrad \/ DiffStep \/ SetWeightDecay \/ SetMomentum

DiffSpec == DiffInit /\ [][DiffNext]_vars

\* The amount the rule with weight decay subtracts from p, from the state
\* before the call.
MomentumSGDWithDecay(p) ==
    LET pg == param_groups[GroupOf(p)]
        d == RAdd(grad[p], RMul(pg.weight_decay, param[p]))
    IN  IF state[p] = None THEN RMul(pg.lr, d)
        ELSE RAdd(RMul(pg.momentum, state[p]), RMul(pg.lr, d))

\* C8 as claimed: each parameter is updated with its own group's
\* hyperparameters, and two parameters with the same value and the same
\* gradient, in groups with different weight_decay, get different values
\* from one step.
C8_DifferentDecayDifferentValues ==
    [][op'.name = "step" =>
            /\ \A p \in Params : grad[p] # None =>
                  /\ param'[p] = RSub(param[p], MomentumSGDWithDecay(p))
                  /\ state'[p] = MomentumSGDWithDecay(p)
            /\ (/\ param[1] = param[2]
                 /\ grad[1] = grad[2] /\ grad[1] # None
                 /\ param_groups[1].weight_decay # param_groups[2].weight_decay)
                => param'[1] # param'[2]]_vars

\* C8: each parameter is updated with its own group's hyperparameters,
\* M = momentum*M_prev + lr*(grad + weight_decay*param), param - M; two
\* parameters with the same value other than 0, the same gradient and the
\* same buffer, in groups that differ in weight_decay only and whose lr is
\* not 0, get different values; a write in one group changes no
\* hyperparameter, hence no update, of the other group.
C8_GroupsUpdateIndependently ==
    [][/\ op'.name = "step" =>
            /\ \A p \in Params : grad[p] # None =>
                  /\ param'[p] = RSub(param[p], MomentumSGDWithDecay(p))
                  /\ state'[p] = MomentumSGDWithDecay(p)
            /\ (/\ param[1] = param[2] /\ param[1] # Zero
                 /\ grad[1] = grad[2] /\ grad[1] # None
                 /\ state[1] = state[2]
                 /\ param_groups[1].lr = param_groups[2].lr
                 /\ param_groups[1].lr # Zero
                 /\ param_groups[1].momentum = param_groups[2].momentum
                 /\ param_groups[1].weight_decay # param_groups[2].weight_decay)
                => param'[1] # param'[2]
       /\ op'.name = "set" =>
            /\ param' = param /\ state' = state /\ grad' = grad
            /\ param_groups'[op'.group][op'.key] = op'.val
            /\ \A g \in Groups : g # op'.group => param_groups'[g] = param_groups[g]]_vars

\* The first step has taken two parameters with the same value and the same
\* gradient, in groups that differ in weight_decay only, to different
\* values.
C8_Witness ==
    /\ variant = "diff"
    /\ op.name = "step"
    /\ nops = 2
    /\ grad[1] = grad[2] /\ grad[1] # None
    /\ param_groups[1].weight_decay # param_groups[2].weight_decay
    /\ param[1] # param[2]

\* ------------------------------------------------------------------------
\* The decay statements on their own (DecaySpec): the optimizer of the
\* scheduler's cell, torch.optim.SGD with lr .1, a weight_decay and
\* momentum .9, and scheduler = MultiStepLR(optimizer, milestones=[6, 11],
\* gamma=.1), driven call by call.  The two train_model that hold the decay
\* statements never reach them (TrainEpoch), so their effect is stated on
\* the statements themselves.
\* ------------------------------------------------------------------------

DecayInit ==
    /\ \E wd \in WdVals :
          param_groups = [g \in Groups |-> NewDiffGroup(g, Rat(1, 10), Rat(9, 10), wd)]
    /\ InitOptimizer
    /\ variant = "decay"
    /\ pc = "cells"
    /\ num_epochs = 0
    /\ checkpoint_loc = NoArg
    /\ checkpoint_name = "checkpoint.pt"
    /\ has_scheduler = TRUE
    /\ epoch_start_scheduler = 1
    /\ set_to_none = FALSE
    /\ loss_params = Params

\* for pg in optimizer.param_groups: pg["lr"] *= .1
Decay ==
    /\ nops < OpsBound
    /\ param_groups' = DecayedGroups
    /\ op' = Call("decay")
    /\ nops' = nops + 1
    /\ UNCHANGED <<param, grad, state, refParam, refBuf, zeroParam, zeroBuf, stepLrs, gradBatches>>
    /\ UNCHANGED trainVars

\* lr_scheduler.step()
Tick ==
    /\ last_epoch < MaxDecayTicks
    /\ param_groups' = MultiStepLR_step
    /\ last_epoch' = last_epoch + 1
    /\ op' = Call("tick")
    /\ UNCHANGED <<param, grad, state, refParam, refBuf, zeroParam, zeroBuf, stepLrs, gradBatches>>
    /\ UNCHANGED <<nops, configVars, pc, epoch, batch, calls, checkpoint>>

DecayNext == Backward \/ ZeroGrad \/ DiffStep \/ Decay \/ Tick

DecaySpec == DecayInit /\ [][DecayNext]_vars

\* C14: a learning-rate decay, be it the hand-written one or a scheduler
\* tick, changes no parameter, no gradient, no buffer, and in every group no
\* slot but lr (momentum, weight_decay and the group's parameters stay);
\* the scheduler's counter changes at a tick only, by exactly 1, and never
\* at zero_grad, backward or the optimizer's step.
C14_DecayWritesLrOnly ==
    [][/\ op'.name \in {"decay", "tick"} =>
            /\ param' = param /\ grad' = grad /\ state' = state
            /\ \A g \in Groups :
                  /\ DOMAIN param_groups'[g] = DOMAIN param_groups[g]
                  /\ \A k \in DOMAIN param_groups[g] \ {"lr"} :
                        param_groups'[g][k] = param_groups[g][k]
       /\ op'.name = "tick" => last_epoch' = last_epoch + 1
       /\ op'.name # "tick" => last_epoch' = last_epoch]_vars

\* The 6th tick has lowered an lr the hand-written decay had lowered
\* before, on an optimizer that holds buffers, gradients and a
\* weight_decay that is not 0.
C14_Witness ==
    /\ variant = "decay"
    /\ op.name = "tick"
    /\ last_epoch = 6
    /\ \A g \in Groups :
          /\ param_groups[g].lr = Rat(1, 1000)
          /\ param_groups[g].momentum = Rat(9, 10)
          /\ param_groups[g].weight_decay = Rat(1, 2)
    /\ state[1] # None /\ state[1] # Zero /\ grad[1] # None

\* ------------------------------------------------------------------------
\* adam = torch.optim.Adam(model.parameters()), with the default
\* hyperparameters (AdamSpec).  state[p] is Adam's record of parameter p,
\* created at the first step that finds a gradient on p; of the record the
\* model keeps step_count and exp_avg.  The new value of the parameter
\* needs a square root, which exact rationals do not have: it is left out,
\* and no property of AdamSpec reads param.
\* ------------------------------------------------------------------------

AdamLr == Rat(1, 1000)
AdamBeta1 == Rat(9, 10)

NewAdamGroup(g) == [params |-> GroupParams[g], lr |-> AdamLr, beta1 |-> AdamBeta1]

\* Mutant: the counter advances for a parameter without gradient too.
Adam_UpdateParam_CountsEveryStep(st, pg, p) ==
    LET old == IF st[p] = None THEN [step |-> 0, exp_avg |-> Zero] ELSE st[p]
        g == IF grad[p] = None THEN Zero ELSE grad[p]
    IN  [st EXCEPT ![p] =
            [step |-> old.step + 1,
             exp_avg |-> RAdd(RMul(pg.beta1, old.exp_avg),
                              RMul(RSub(One, pg.beta1), g))]]

\* Adam's rule for parameter p of group pg: the record is zero-initialized
\* on first use, t is incremented, M = beta1*M_prev + (1 - beta1)*grad.
Adam_UpdateParam(st, pg, p) ==
    IF grad[p] # None
    THEN LET old == IF st[p] = None THEN [step |-> 0, exp_avg |-> Zero] ELSE st[p]
         IN  [st EXCEPT ![p] =
                 [step |-> old.step + 1,
                  exp_avg |-> RAdd(RMul(pg.beta1, old.exp_avg),
                                   RMul(RSub(One, pg.beta1), grad[p]))]]
    ELSE st

RECURSIVE Adam_StepParams(_, _, _)
Adam_StepParams(st, pg, i) ==
    IF i > Len(pg.params) THEN st
    ELSE Adam_StepParams(Adam_UpdateParam(st, pg, pg.params[i]), pg, i + 1)

RECURSIVE Adam_StepGroups(_, _)
Adam_StepGroups(st, j) ==
    IF j > Len(param_groups) THEN st
    ELSE Adam_StepGroups(Adam_StepParams(st, param_groups[j], 1), j + 1)

Adam_step == Adam_StepGroups(state, 1)

AdamInit ==
    /\ param_groups = [g \in Groups |-> NewAdamGroup(g)]
    /\ InitOptimizer
    /\ variant = "adam"
    /\ pc = "cells"
    /\ num_epochs = 0
    /\ checkpoint_loc = NoArg
    /\ checkpoint_name = "checkpoint.pt"
    /\ has_scheduler = TRUE
    /\ epoch_start_scheduler = 1
    /\ set_to_none = FALSE
    /\ loss_params = Params

AdamStep ==
    /\ nops < OpsBound
    /\ state' = Adam_step
    /\ stepLrs' = [g \in Groups |-> stepLrs[g] \cup {param_groups[g].lr}]
    /\ op' = Call("step")
    /\ nops' = nops + 1
    /\ UNCHANGED <<param, grad, gradBatches, param_groups, refParam, refBuf, zeroParam, zeroBuf, trainVars>>

\* lr_scheduler.step() of a MultiStepLR on adam.
AdamTick ==
    /\ last_epoch < MaxAdamTicks
    /\ param_groups' = MultiStepLR_step
    /\ last_epoch' = last_epoch + 1
    /\ op' = Call("tick")
    /\ UNCHANGED <<param, grad, state, refParam, refBuf, zeroParam, zeroBuf, stepLrs, gradBatches>>
    /\ UNCHANGED <<nops, configVars, pc, epoch, batch, calls, checkpoint>>

AdamNext == Backward \/ ZeroGrad \/ AdamStep \/ SetLr \/ AdamTick

AdamSpec == AdamInit /\ [][AdamNext]_vars

\* C13: Adam's step_count of a parameter is 0 before any call (no record),
\* goes up by exactly 1 at every step that finds a gradient on that
\* parameter, and is left alone by every other call: a step without
\* gradient on it (whatever the other parameter has), zero_grad, backward,
\* a write of lr, a scheduler tick.
C13_StepCountAdvancesByOne ==
    [][\A p \in Params :
         LET t == IF state[p] = None THEN 0 ELSE state[p].step
             tNew == IF state'[p] = None THEN 0 ELSE state'[p].step
         IN  /\ op.name = "init" => t = 0
             /\ tNew = IF op'.name = "step" /\ grad[p] # None THEN t + 1 ELSE t]_vars

\* Parameter 1 has been through two steps with a gradient, parameter 2
\* through none although steps were made, and a tick has lowered the lr.
C13_Witness ==
    /\ variant = "adam"
    /\ state[1] # None /\ state[1].step = 2
    /\ state[2] = None
    /\ last_epoch = 6 /\ param_groups[1].lr # AdamLr

====
